---- MODULE Spec2Model ----
(***************************************************************************)
(* A model of ssoh: the per-target ping history (data_models.PingList),    *)
(* the failure classification and escalation rules, and the cooldown-gated *)
(* restart of the OPNsense box (online_status).                            *)
(*                                                                         *)
(* Time is counted in whole seconds.  A float in [0,1] is a pair           *)
(* <<numerator, denominator>>, compared by cross-multiplication.           *)
(***************************************************************************)
EXTENDS Integers, Sequences, FiniteSets, TLC

(***************************************************************************)
(* Bounds of the model.                                                    *)
(***************************************************************************)
\* uuids handed out in one behaviour of the list-level specifications
MaxUuid == 6
\* add_ping calls in one behaviour of SpecFifo
MaxInserts == 6
\* add_ping_event calls with an event built earlier, in one behaviour of SpecList
MaxReoffers == 1
\* add_ping calls, and steps of the clock, in one behaviour of SpecStore
MaxStoreAdds == 1
MaxStoreTicks == 1
\* caller-supplied timestamps are drawn from 0..MaxStamp
MaxStamp == 1
\* runs of the script in one behaviour of Spec
MaxRuns == 2
\* the clock of Spec moves in steps of TickStep seconds, MaxTicks times at most
TickStep == 30
MaxTicks == 2
\* config reset_delay is drawn from 1..MaxResetDelay (minutes)
MaxResetDelay == 1
\* the latency, in ms, a successful ping3.ping reports
OkLatency == 1

(***************************************************************************)
(* Program constants.                                                      *)
(***************************************************************************)
\* data_models.py:59   while len(self.pings) >= 5
MaxPings == 5
\* online_status.py:49   return True, 99999999
FailedLatency == 99999999

VARIABLES
    pinglist,   \* PingList.pings of the in-memory object of the list-level specifications
    nextId,     \* the next uuid4 value: uuids are fresh, never repeated
    lastCall,   \* the last list-level call, the uuid it was given, whether the list held it
    inserted,   \* every PingEvent passed to add_ping_event in SpecFifo, in call order
    config,     \* config.yml: check_ips.local, check_ips.global, no_restart, reset_delay
    files,      \* <ip>.json of every target
    backups,    \* the files <ip>.json.<timestamp>
    lastreset,  \* lastreset.json
    now,        \* datetime.now(), in seconds
    pc,         \* where the run of the script is
    failed_ips, \* the dictionary get_failed_ips returned to __main__
    runs,       \* the runs of the script so far, this one included
    calls,      \* the requests.post calls made so far: when, and what came back
    outcome     \* how the last call of reset_opnsense ended

listVars == <<pinglist, lastCall, inserted>>
sysVars == <<config, files, backups, lastreset, now, pc, failed_ips, runs, calls, outcome>>
vars == <<pinglist, nextId, lastCall, inserted, config, files, backups, lastreset, now, pc,
          failed_ips, runs, calls, outcome>>

(***************************************************************************)
(* data_models.PingEvent                                                   *)
(***************************************************************************)
PingEvent(uuid, timestamp, ping, failure) ==
    [event_uuid |-> uuid, timestamp |-> timestamp, ping |-> ping, failure |-> failure]

\* the (failed, latency) pairs ping_wrapper returns
PingResults == {<<FALSE, OkLatency>>, <<TRUE, FailedLatency>>}

(***************************************************************************)
(* PingList.add_ping_event                                                 *)
(***************************************************************************)
\* The key of the sort: lambda sorted_ping: ping.timestamp, where ping is
\* the event being added, not the element being sorted.
SortKeyOwnTimestamp(sorted_ping, ping) == sorted_ping.timestamp

SortKey(sorted_ping, ping) == ping.timestamp

\* list.sort is stable: an element goes behind every element whose key is
\* not greater than its own.
RECURSIVE InsertByKey(_, _, _)
InsertByKey(sorted, elem, ping) ==
    IF sorted = << >> THEN <<elem>>
    ELSE IF SortKey(elem, ping) < SortKey(Head(sorted), ping)
         THEN <<elem>> \o sorted
         ELSE <<Head(sorted)>> \o InsertByKey(Tail(sorted), elem, ping)

RECURSIVE SortPings(_, _, _)
SortPings(done, todo, ping) ==
    IF todo = << >> THEN done
    ELSE SortPings(InsertByKey(done, Head(todo), ping), Tail(todo), ping)

\* while len(self.pings) >= 5: self.pings.pop(0)
PopNeededOverFive(pings) == Len(pings) > MaxPings

PopNeeded(pings) == Len(pings) >= MaxPings

RECURSIVE PopOldest(_)
PopOldest(pings) ==
    IF PopNeeded(pings) THEN PopOldest(Tail(pings)) ELSE pings

\* for existing_ping in self.pings: if existing_ping.event_uuid == ping.event_uuid
AlreadyExistsNever(pings, ping) == FALSE

AlreadyExists(pings, ping) ==
    \E i \in 1..Len(pings) : pings[i].event_uuid = ping.event_uuid

add_ping_event(pings, ping) ==
    IF AlreadyExists(pings, ping) THEN pings
    ELSE Append(PopOldest(SortPings(<< >>, pings, ping)), ping)

(***************************************************************************)
(* PingList.get_valid_percentage                                           *)
(***************************************************************************)
\* sum(not ping.failure for ping in self.pings)
RECURSIVE valid_events(_)
valid_events(pings) ==
    IF pings = << >> THEN 0
    ELSE (IF Head(pings).failure THEN 0 ELSE 1) + valid_events(Tail(pings))

get_valid_percentage_failed(pings) ==
    IF Len(pings) = 0 THEN <<1, 1>>
    ELSE <<Len(pings) - valid_events(pings), Len(pings)>>

get_valid_percentage(pings) ==
    IF Len(pings) = 0 THEN <<1, 1>>
    ELSE <<valid_events(pings), Len(pings)>>

\* comparison and equality of two fractions with positive denominators
FracLess(a, b) == a[1] * b[2] < b[1] * a[2]
FracEq(a, b) == a[1] * b[2] = b[1] * a[2]

(***************************************************************************)
(* The files of one target: PingList.load, PingList.save, PingList.clear.  *)
(* A disk is [files, backups]; files maps every target to the content of   *)
(* <ip>.json, backups is the set of files <ip>.json.<timestamp>.           *)
(***************************************************************************)
NoFile == [kind |-> "absent"]
MalformedFile == [kind |-> "malformed"]

\* A datetime is written to JSON in ISO 8601 form, the date and the time of
\* day apart, and read back from it; the model counts days of 86400 seconds.
IsoFormat(t) == [date |-> t \div 86400, time |-> t % 86400]

FromIsoFormat(iso) == iso.date * 86400 + iso.time

\* one PingEvent as a JSON object, and back
dump_eventFailureLeftOut(ping) ==
    [event_uuid |-> ping.event_uuid, timestamp |-> IsoFormat(ping.timestamp),
     ping |-> ping.ping, failure |-> TRUE]

dump_event(ping) ==
    [event_uuid |-> ping.event_uuid, timestamp |-> IsoFormat(ping.timestamp),
     ping |-> ping.ping, failure |-> ping.failure]

validate_event(obj) ==
    PingEvent(obj.event_uuid, FromIsoFormat(obj.timestamp), obj.ping, obj.failure)

\* self.model_dump_json()
model_dump_json(target, pings) ==
    [kind |-> "json", target |-> target,
     pings |-> [i \in 1..Len(pings) |-> dump_event(pings[i])]]

\* cls.model_validate_json(listfile.read()) raises ValueError on anything
\* that is not the dump of a PingList
RaisesValueError(content) == content.kind # "json"

model_validate_json(content) ==
    [i \in 1..Len(content.pings) |-> validate_event(content.pings[i])]

\* shutil.move(filename, backup_file_name): the file is gone from its old
\* name, and a file already carrying the new name is replaced
moveNowhere(disk, ip, stamp) == [disk EXCEPT !.files[ip] = NoFile]

move(disk, ip, stamp) ==
    [files   |-> [disk.files EXCEPT ![ip] = NoFile],
     backups |-> {b \in disk.backups : b.ip # ip \/ b.stamp # stamp}
                 \cup {[ip |-> ip, stamp |-> stamp, content |-> disk.files[ip]]}]

\* int(datetime.timestamp(datetime.now())), on a clock of whole seconds
BackupStamp(t) == t

\* load without its except ValueError clause
loadValueErrorEscapes(disk, ip, t) ==
    LET content == disk.files[ip] IN
    IF content.kind = "absent" THEN [pings |-> << >>, disk |-> disk, raised |-> FALSE]
    ELSE IF RaisesValueError(content)
         THEN [pings |-> << >>, disk |-> disk, raised |-> TRUE]
         ELSE [pings |-> model_validate_json(content), disk |-> disk, raised |-> FALSE]

\* FileNotFoundError and ValueError are caught: no branch of load raises
load(disk, ip, t) ==
    LET content == disk.files[ip] IN
    IF content.kind = "absent" THEN [pings |-> << >>, disk |-> disk, raised |-> FALSE]
    ELSE IF RaisesValueError(content)
         THEN [pings |-> << >>, disk |-> move(disk, ip, BackupStamp(t)), raised |-> FALSE]
         ELSE [pings |-> model_validate_json(content), disk |-> disk, raised |-> FALSE]

save(disk, ip, pings) == [disk EXCEPT !.files[ip] = model_dump_json(ip, pings)]

\* shutil.move raises FileNotFoundError when load found no file, or moved
\* a malformed one away
clear(disk, ip, t) ==
    LET loaded == load(disk, ip, t) IN
    IF loaded.disk.files[ip].kind = "absent"
    THEN [disk |-> loaded.disk, raised |-> TRUE]
    ELSE [disk |-> save(move(loaded.disk, ip, BackupStamp(t)), ip, << >>), raised |-> FALSE]

(***************************************************************************)
(* online_status: check_ip, check_all_ips, get_failed_ips, clear_all_ips   *)
(***************************************************************************)
\* check_ip, given what ping_wrapper returned.  add_ping's default
\* timestamp is evaluated once, when data_models is imported at the start
\* of the run: every event of a run carries that time.
check_ip(st, ip, result, t) ==
    LET loaded == load(st.disk, ip, t)
        ping == PingEvent(st.nextId, t, result[2], result[1])
    IN [disk   |-> save(loaded.disk, ip, add_ping_event(loaded.pings, ping)),
        nextId |-> st.nextId + 1]

RECURSIVE check_ips(_, _, _, _)
check_ips(st, ips, results, t) ==
    IF ips = << >> THEN st
    ELSE check_ips(check_ip(st, Head(ips), results[Head(ips)], t), Tail(ips), results, t)

check_all_ips(st, cfg, results, t) ==
    check_ips(check_ips(st, cfg.local, results, t), cfg.global, results, t)

\* if pinglist.get_valid_percentage() < 0.5
IsFailedAtMostHalf(pings) == ~FracLess(<<1, 2>>, get_valid_percentage(pings))

IsFailedOfSeveral(pings) ==
    Len(pings) > 1 /\ FracLess(get_valid_percentage(pings), <<1, 2>>)

IsFailed(pings) == FracLess(get_valid_percentage(pings), <<1, 2>>)

\* one loop of get_failed_ips
RECURSIVE failed_of(_, _, _, _)
failed_of(acc, disk, ips, t) ==
    IF ips = << >> THEN [failed |-> acc, disk |-> disk]
    ELSE LET loaded == load(disk, Head(ips), t) IN
         failed_of(IF IsFailed(loaded.pings) THEN Append(acc, Head(ips)) ELSE acc,
                   loaded.disk, Tail(ips), t)

get_failed_ips(disk, cfg, t) ==
    LET l == failed_of(<< >>, disk, cfg.local, t)
        g == failed_of(<< >>, l.disk, cfg.global, t)
    IN [failed |-> [local |-> l.failed, global |-> g.failed], disk |-> g.disk]

\* one loop of clear_all_ips; an exception of clear ends it
RECURSIVE clear_ips(_, _, _)
clear_ips(disk, ips, t) ==
    IF ips = << >> THEN [disk |-> disk, raised |-> FALSE]
    ELSE LET c == clear(disk, Head(ips), t) IN
         IF c.raised THEN c ELSE clear_ips(c.disk, Tail(ips), t)

clear_all_ips(disk, cfg, t) ==
    LET l == clear_ips(disk, cfg.local, t) IN
    IF l.raised THEN l ELSE clear_ips(l.disk, cfg.global, t)

(***************************************************************************)
(* The script: __main__ and reset_opnsense, run after run.                 *)
(***************************************************************************)
LocalPool == <<"L1", "L2">>
GlobalPool == <<"G1", "G2">>
Pool == LocalPool \o GlobalPool
Ips == {Pool[i] : i \in 1..Len(Pool)}

\* the lists a config file can name: the pool, with any of its ips left out
SubLists(pool) ==
    {SelectSeq(pool, LAMBDA ip : ip \in keep) : keep \in SUBSET {pool[i] : i \in 1..Len(pool)}}

Configs(locals, globals) ==
    [local : locals, global : globals, no_restart : BOOLEAN, reset_delay : 1..MaxResetDelay]

Configured(cfg) ==
    {cfg.local[i] : i \in 1..Len(cfg.local)} \cup {cfg.global[i] : i \in 1..Len(cfg.global)}

\* a history earlier runs of the script can have left on disk
PoolIndex(ip) == CHOOSE i \in 1..Len(Pool) : Pool[i] = ip

InitialUuid(ip, i) == 100 * PoolIndex(ip) + i

History(ip, failures) ==
    [i \in 1..Len(failures) |->
        PingEvent(InitialUuid(ip, i), 0,
                  IF failures[i] THEN FailedLatency ELSE OkLatency, failures[i])]

\* the files of the targets: one of the given contents for a configured
\* target, no file for the others
FilesOf(cfg, contents) ==
    LET choice(i) == IF Pool[i] \in Configured(cfg) THEN contents[Pool[i]] ELSE {NoFile}
    IN {[ip \in Ips |-> t[PoolIndex(ip)]] :
           t \in choice(1) \X choice(2) \X choice(3) \X choice(4)}

\* lastreset.json: missing, not JSON, JSON that is no number, or the time
\* json.dump wrote
NoLastreset == [kind |-> "absent"]
LastresetAt(t) == [kind |-> "number", at |-> t]
InitialLastresets == {NoLastreset, [kind |-> "malformed"], [kind |-> "other"], LastresetAt(0)}

NoOutcome == [result |-> "none", raised |-> FALSE]
NoFailedIps == [local |-> << >>, global |-> << >>]
NoCall == [op |-> "none", uuid |-> 0, present |-> FALSE, reoffers |-> 0]

\* The runs of the script start on one local and one global target at most,
\* each with no file, a malformed file or a full history.
InitialFiles(ip) ==
    {NoFile, MalformedFile,
     model_dump_json(ip, History(ip, <<FALSE, TRUE, TRUE, FALSE, FALSE>>))}

SysInit ==
    /\ config \in Configs({<< >>, <<"L1">>}, {<< >>, <<"G1">>})
    /\ files \in FilesOf(config, [ip \in Ips |-> InitialFiles(ip)])
    /\ backups = {}
    /\ lastreset \in InitialLastresets
    /\ now = 0
    /\ pc = "start"
    /\ failed_ips = NoFailedIps
    /\ runs = 1
    /\ calls = << >>
    /\ outcome = NoOutcome
    /\ nextId = 1
    /\ pinglist = << >>
    /\ lastCall = NoCall
    /\ inserted = << >>

\* check_all_ips()
Main_check_all_ips ==
    /\ pc = "start"
    /\ \E results \in [Configured(config) -> PingResults] :
          LET st == check_all_ips([disk |-> [files |-> files, backups |-> backups],
                                   nextId |-> nextId], config, results, now)
          IN /\ files' = st.disk.files
             /\ backups' = st.disk.backups
             /\ nextId' = st.nextId
    /\ pc' = "checked"
    /\ UNCHANGED <<config, lastreset, now, failed_ips, runs, calls, outcome>>
    /\ UNCHANGED listVars

\* failed_ips = get_failed_ips()
Main_get_failed_ips ==
    /\ pc = "checked"
    /\ LET got == get_failed_ips([files |-> files, backups |-> backups], config, now)
       IN /\ failed_ips' = got.failed
          /\ files' = got.disk.files
          /\ backups' = got.disk.backups
    /\ pc' = "decide"
    /\ UNCHANGED <<config, lastreset, now, runs, calls, outcome, nextId>>
    /\ UNCHANGED listVars

\* the three tests of __main__; 0.5 * len(...) is compared as 2 * failed > configured
OneGlobalAndOneLocal(failed) == Len(failed.global) > 0 /\ Len(failed.local) > 0

HalfOrMoreOfGlobal(failed, cfg) == 2 * Len(failed.global) >= Len(cfg.global)

MoreThanHalfOfGlobal(failed, cfg) == 2 * Len(failed.global) > Len(cfg.global)

MoreThanHalfOfLocal(failed, cfg) == 2 * Len(failed.local) > Len(cfg.local)

RestartingAlways(failed, cfg) == TRUE

Restarting(failed, cfg) ==
    \/ OneGlobalAndOneLocal(failed)
    \/ MoreThanHalfOfGlobal(failed, cfg)
    \/ MoreThanHalfOfLocal(failed, cfg)

\* one of the tests holds: reset_opnsense() is called, exit(0) follows
Main_restarting ==
    /\ pc = "decide"
    /\ Restarting(failed_ips, config)
    /\ pc' = "reset"
    /\ UNCHANGED <<config, files, backups, lastreset, now, failed_ips, runs, calls, outcome,
                   nextId>>
    /\ UNCHANGED listVars

\* none holds: "Script ran successfully! No IPs failed."
Main_ran_successfully ==
    /\ pc = "decide"
    /\ ~Restarting(failed_ips, config)
    /\ pc' = "exited"
    /\ UNCHANGED <<config, files, backups, lastreset, now, failed_ips, runs, calls, outcome,
                   nextId>>
    /\ UNCHANGED listVars

\* timedelta(minutes=config["reset_delay"]), in seconds
SecondsPerMinute == 60
ResetDelay(cfg) == SecondsPerMinute * cfg.reset_delay

\* difference < timedelta(minutes=config["reset_delay"])
TooSoonNever(last, t, cfg) == FALSE

TooSoon(last, t, cfg) == last.kind = "number" /\ t - last.at < ResetDelay(cfg)

\* if config["no_restart"]: return
reset_no_restart ==
    /\ pc = "reset"
    /\ config.no_restart
    /\ outcome' = [result |-> "no_restart", raised |-> FALSE]
    /\ pc' = "exited"
    /\ UNCHANGED <<config, files, backups, lastreset, now, failed_ips, runs, calls, nextId>>
    /\ UNCHANGED listVars

\* "Last reset was only ... seconds ago. Skipping Reset."
reset_skipped ==
    /\ pc = "reset"
    /\ ~config.no_restart
    /\ TooSoon(lastreset, now, config)
    /\ outcome' = [result |-> "skipped", raised |-> FALSE]
    /\ pc' = "exited"
    /\ UNCHANGED <<config, files, backups, lastreset, now, failed_ips, runs, calls, nextId>>
    /\ UNCHANGED listVars

\* datetime.fromtimestamp(lastreset) raises TypeError on JSON that is no number
reset_type_error ==
    /\ pc = "reset"
    /\ ~config.no_restart
    /\ lastreset.kind = "other"
    /\ outcome' = [result |-> "none", raised |-> TRUE]
    /\ pc' = "exited"
    /\ UNCHANGED <<config, files, backups, lastreset, now, failed_ips, runs, calls, nextId>>
    /\ UNCHANGED listVars

\* the request is due: enough time has passed, or lastreset.json is missing
\* or is not JSON
PostDueDespiteNoRestart ==
    /\ pc = "reset"
    /\ lastreset.kind # "other"
    /\ ~TooSoon(lastreset, now, config)

PostDue ==
    /\ pc = "reset"
    /\ ~config.no_restart
    /\ lastreset.kind # "other"
    /\ ~TooSoon(lastreset, now, config)

\* requests.post raises: no response, the exception ends the run
reset_post_raises ==
    /\ PostDue
    /\ calls' = Append(calls, [run |-> runs, at |-> now, responded |-> FALSE, status |-> 0])
    /\ outcome' = [result |-> "none", raised |-> TRUE]
    /\ pc' = "exited"
    /\ UNCHANGED <<config, files, backups, lastreset, now, failed_ips, runs, nextId>>
    /\ UNCHANGED listVars

\* the status codes the management interface answers with
StatusCodes == {101, 200, 500}

\* if resp.status_code > 299
MaxOkStatus == 299
IsErrorStatus(status) == status > MaxOkStatus

\* "Could not reset opnsense successfully."; resp.json() may raise afterwards
reset_post_failed ==
    /\ PostDue
    /\ \E status \in StatusCodes, json_ok \in BOOLEAN :
          /\ IsErrorStatus(status)
          /\ calls' = Append(calls, [run |-> runs, at |-> now, responded |-> TRUE, status |-> status])
          /\ outcome' = [result |-> "failed", raised |-> ~json_ok]
    /\ pc' = "exited"
    /\ UNCHANGED <<config, files, backups, lastreset, now, failed_ips, runs, nextId>>
    /\ UNCHANGED listVars

\* json.dump(datetime.datetime.timestamp(datetime.datetime.now()), open("lastreset.json", "w"))
WrittenLastresetKept(last, t) == last

WrittenLastreset(last, t) == LastresetAt(t)

\* clear_all_ips(), then lastreset.json is written unless clear raised;
\* resp.json() may raise afterwards
reset_post_ok ==
    /\ PostDue
    /\ \E status \in StatusCodes, json_ok \in BOOLEAN :
          LET cleared == clear_all_ips([files |-> files, backups |-> backups], config, now) IN
          /\ ~IsErrorStatus(status)
          /\ calls' = Append(calls, [run |-> runs, at |-> now, responded |-> TRUE, status |-> status])
          /\ files' = cleared.disk.files
          /\ backups' = cleared.disk.backups
          /\ lastreset' = IF cleared.raised THEN lastreset
                          ELSE WrittenLastreset(lastreset, now)
          /\ outcome' = [result |-> "reset", raised |-> cleared.raised \/ ~json_ok]
    /\ pc' = "exited"
    /\ UNCHANGED <<config, now, failed_ips, runs, nextId>>
    /\ UNCHANGED listVars

reset_opnsense ==
    \/ reset_no_restart
    \/ reset_skipped
    \/ reset_type_error
    \/ reset_post_raises
    \/ reset_post_failed
    \/ reset_post_ok

\* the scheduler starts the script again
NextRun ==
    /\ pc = "exited"
    /\ runs < MaxRuns
    /\ runs' = runs + 1
    /\ pc' = "start"
    /\ failed_ips' = NoFailedIps
    /\ outcome' = NoOutcome
    /\ UNCHANGED <<config, files, backups, lastreset, now, calls, nextId>>
    /\ UNCHANGED listVars

\* time passes between two runs; the clock never runs backwards
Tick ==
    /\ pc = "exited"
    /\ now < MaxTicks * TickStep
    /\ now' = now + TickStep
    /\ UNCHANGED <<config, files, backups, lastreset, pc, failed_ips, runs, calls, outcome,
                   nextId>>
    /\ UNCHANGED listVars

Next ==
    \/ Main_check_all_ips
    \/ Main_get_failed_ips
    \/ Main_restarting
    \/ Main_ran_successfully
    \/ reset_opnsense
    \/ NextRun
    \/ Tick

Spec == SysInit /\ [][Next]_vars

(***************************************************************************)
(* The evaluation specification: get_failed_ips and the tests of __main__  *)
(* applied to any configuration of the pool and any files of its targets.  *)
(***************************************************************************)
EvalFiles(ip) ==
    {NoFile, MalformedFile,
     model_dump_json(ip, << >>),
     model_dump_json(ip, History(ip, <<TRUE>>)),
     model_dump_json(ip, History(ip, <<TRUE, FALSE, FALSE, TRUE>>)),
     model_dump_json(ip, History(ip, <<FALSE, TRUE, TRUE, FALSE, FALSE>>)),
     model_dump_json(ip, History(ip, <<TRUE, FALSE, TRUE, FALSE, TRUE>>))}

EvalInit ==
    /\ config \in Configs(SubLists(LocalPool), SubLists(GlobalPool))
    /\ ~config.no_restart
    /\ files \in FilesOf(config, [ip \in Ips |-> EvalFiles(ip)])
    /\ backups = {}
    /\ lastreset = NoLastreset
    /\ now = 0
    /\ pc = "checked"
    /\ failed_ips = NoFailedIps
    /\ runs = 1
    /\ calls = << >>
    /\ outcome = NoOutcome
    /\ nextId = 1
    /\ pinglist = << >>
    /\ lastCall = NoCall
    /\ inserted = << >>

EvalNext ==
    \/ Main_get_failed_ips
    \/ Main_restarting
    \/ Main_ran_successfully

SpecEval == EvalInit /\ [][EvalNext]_vars

(***************************************************************************)
(* The list-level specification: one PingList object, created empty, and   *)
(* any sequence of add_ping and add_ping_event calls on it.                *)
(***************************************************************************)
\* the uuids a list holds
Uuids(pings) == {pings[i].event_uuid : i \in 1..Len(pings)}

\* no script runs beside the list
ListInit ==
    /\ pinglist = << >>
    /\ nextId = 1
    /\ lastCall = NoCall
    /\ inserted = << >>
    /\ config = [local |-> << >>, global |-> << >>, no_restart |-> TRUE, reset_delay |-> 1]
    /\ files = [ip \in Ips |-> NoFile]
    /\ backups = {}
    /\ lastreset = NoLastreset
    /\ now = 0
    /\ pc = "none"
    /\ failed_ips = NoFailedIps
    /\ runs = 0
    /\ calls = << >>
    /\ outcome = NoOutcome

\* add_ping: a new PingEvent, with a fresh uuid, goes through add_ping_event
ListAddPing ==
    /\ nextId <= MaxUuid
    /\ \E r \in PingResults, ts \in 0..MaxStamp :
          LET ping == PingEvent(nextId, ts, r[2], r[1]) IN
          /\ pinglist' = add_ping_event(pinglist, ping)
          /\ lastCall' = [op |-> "add_ping", uuid |-> ping.event_uuid,
                          present |-> ping.event_uuid \in Uuids(pinglist),
                          reoffers |-> lastCall.reoffers]
    /\ nextId' = nextId + 1
    /\ UNCHANGED inserted
    /\ UNCHANGED sysVars

\* add_ping_event with a PingEvent the caller built earlier: its uuid is one
\* of those already handed out, whether or not the list still holds it
ListAddPingEvent ==
    /\ lastCall.reoffers < MaxReoffers
    /\ \E uuid \in 1..(nextId - 1), r \in PingResults, ts \in 0..MaxStamp :
          LET ping == PingEvent(uuid, ts, r[2], r[1]) IN
          /\ pinglist' = add_ping_event(pinglist, ping)
          /\ lastCall' = [op |-> "add_ping_event", uuid |-> uuid,
                          present |-> uuid \in Uuids(pinglist),
                          reoffers |-> lastCall.reoffers + 1]
    /\ UNCHANGED <<nextId, inserted>>
    /\ UNCHANGED sysVars

ListNext == ListAddPing \/ ListAddPingEvent

SpecList == ListInit /\ [][ListNext]_vars

(***************************************************************************)
(* The FIFO specification: add_ping calls only, every event with a fresh   *)
(* uuid and a timestamp of the caller's choice; inserted keeps the calls.  *)
(***************************************************************************)
FifoAddPing ==
    /\ Len(inserted) < MaxInserts
    /\ \E r \in PingResults, ts \in 0..MaxStamp :
          LET ping == PingEvent(nextId, ts, r[2], r[1]) IN
          /\ pinglist' = add_ping_event(pinglist, ping)
          /\ inserted' = Append(inserted, ping)
          /\ lastCall' = [op |-> "add_ping", uuid |-> ping.event_uuid,
                          present |-> ping.event_uuid \in Uuids(pinglist),
                          reoffers |-> lastCall.reoffers]
    /\ nextId' = nextId + 1
    /\ UNCHANGED sysVars

FifoNext == FifoAddPing

SpecFifo == ListInit /\ [][FifoNext]_vars

(***************************************************************************)
(* The store specification: one PingList object for one target, created    *)
(* empty, and any interleaving of add_ping, add_ping_event, save, load and *)
(* clear on it and on the target's file, whatever the file holds at first. *)
(***************************************************************************)
StoreIp == "L1"

StoreFiles ==
    {NoFile, MalformedFile,
     model_dump_json(StoreIp, << >>),
     model_dump_json(StoreIp, History(StoreIp, <<TRUE, FALSE, FALSE, TRUE>>)),
     model_dump_json(StoreIp, History(StoreIp, <<FALSE, TRUE, TRUE, FALSE, FALSE>>))}

StoreCall(op, uuid, present, reoffers, raised, before) ==
    [op |-> op, uuid |-> uuid, present |-> present, reoffers |-> reoffers,
     raised |-> raised, before |-> before]

StoreInit ==
    /\ pinglist = << >>
    /\ nextId = 1
    /\ lastCall = StoreCall("none", 0, FALSE, 0, FALSE, NoFile)
    /\ inserted = << >>
    /\ config = [local |-> <<StoreIp>>, global |-> << >>, no_restart |-> TRUE, reset_delay |-> 1]
    /\ files \in {[ip \in Ips |-> IF ip = StoreIp THEN content ELSE NoFile] :
                     content \in StoreFiles}
    /\ backups = {}
    /\ lastreset = NoLastreset
    /\ now = 0
    /\ pc = "none"
    /\ failed_ips = NoFailedIps
    /\ runs = 0
    /\ calls = << >>
    /\ outcome = NoOutcome

\* pinglist.add_ping(latency=latency, failure=failed)
StoreAddPing ==
    /\ nextId <= MaxStoreAdds
    /\ \E r \in PingResults :
          LET ping == PingEvent(nextId, now, r[2], r[1]) IN
          /\ pinglist' = add_ping_event(pinglist, ping)
          /\ lastCall' = StoreCall("add_ping", ping.event_uuid,
                                   ping.event_uuid \in Uuids(pinglist), lastCall.reoffers,
                                   FALSE, files[StoreIp])
    /\ nextId' = nextId + 1
    /\ UNCHANGED <<inserted, sysVars>>

\* pinglist.add_ping_event(ping) with an event built earlier, or one whose
\* uuid the list holds
StoreAddPingEvent ==
    /\ lastCall.reoffers < MaxReoffers
    /\ \E uuid \in (1..(nextId - 1)) \cup Uuids(pinglist), r \in PingResults :
          LET ping == PingEvent(uuid, now, r[2], r[1]) IN
          /\ pinglist' = add_ping_event(pinglist, ping)
          /\ lastCall' = StoreCall("add_ping_event", uuid, uuid \in Uuids(pinglist),
                                   lastCall.reoffers + 1, FALSE, files[StoreIp])
    /\ UNCHANGED <<nextId, inserted, sysVars>>

\* pinglist = PingList.load(ip)
StoreLoad ==
    /\ LET loaded == load([files |-> files, backups |-> backups], StoreIp, now) IN
       /\ pinglist' = IF loaded.raised THEN pinglist ELSE loaded.pings
       /\ files' = loaded.disk.files
       /\ backups' = loaded.disk.backups
       /\ lastCall' = StoreCall("load", 0, FALSE, lastCall.reoffers, loaded.raised,
                                files[StoreIp])
    /\ UNCHANGED <<nextId, inserted, config, lastreset, now, pc, failed_ips, runs, calls,
                   outcome>>

\* pinglist.save()
StoreSave ==
    /\ LET saved == save([files |-> files, backups |-> backups], StoreIp, pinglist) IN
       /\ files' = saved.files
       /\ backups' = saved.backups
    /\ lastCall' = StoreCall("save", 0, FALSE, lastCall.reoffers, FALSE, files[StoreIp])
    /\ UNCHANGED <<pinglist, nextId, inserted, config, lastreset, now, pc, failed_ips, runs,
                   calls, outcome>>

\* PingList.clear(ip): a classmethod, the object in memory is not touched
StoreClear ==
    /\ LET cleared == clear([files |-> files, backups |-> backups], StoreIp, now) IN
       /\ files' = cleared.disk.files
       /\ backups' = cleared.disk.backups
       /\ lastCall' = StoreCall("clear", 0, FALSE, lastCall.reoffers, cleared.raised,
                                files[StoreIp])
    /\ UNCHANGED <<pinglist, nextId, inserted, config, lastreset, now, pc, failed_ips, runs,
                   calls, outcome>>

\* time passes between two calls
StoreTick ==
    /\ now < MaxStoreTicks * TickStep
    /\ now' = now + TickStep
    /\ lastCall' = StoreCall("tick", 0, FALSE, lastCall.reoffers, FALSE, files[StoreIp])
    /\ UNCHANGED <<pinglist, nextId, inserted, config, files, backups, lastreset, pc,
                   failed_ips, runs, calls, outcome>>

StoreNext ==
    \/ StoreAddPing
    \/ StoreAddPingEvent
    \/ StoreLoad
    \/ StoreSave
    \/ StoreClear
    \/ StoreTick

SpecStore == StoreInit /\ [][StoreNext]_vars

(***************************************************************************)
(* Claims about one PingList.                                              *)
(***************************************************************************)
Min(a, b) == IF a < b THEN a ELSE b

C9_ValidPercentage ==
    LET n == Len(pinglist)
        ok == Cardinality({i \in 1..n : ~pinglist[i].failure})
        r == get_valid_percentage(pinglist)
    IN /\ n = 0 => r = <<1, 1>>
       /\ n > 0 => FracEq(r, <<ok, n>>)
       /\ (n = 5 /\ ok = 3) => FracEq(r, <<6, 10>>)
       /\ ~FracLess(r, <<0, 1>>)
       /\ ~FracLess(<<1, 1>>, r)

\* five events, two of them failed
C9_Witness ==
    /\ Len(pinglist) = 5
    /\ Cardinality({i \in 1..5 : pinglist[i].failure}) = 2

\* C10: a call of add_ping_event with an event whose uuid the list already
\* holds leaves the list as it was, also when the list is full.
C10_DuplicateIsNoOp ==
    [][lastCall'.present => pinglist' = pinglist]_vars

\* a duplicate was offered to a full list
C10_Witness ==
    /\ lastCall.present
    /\ lastCall.op = "add_ping_event"
    /\ Len(pinglist) = MaxPings

(***************************************************************************)
(* Claims about the runs of the script.                                    *)
(***************************************************************************)
ListSet(list) == {list[i] : i \in 1..Len(list)}

\* the requests.post call came back with a 2xx status
Is2xx(call) == call.responded /\ call.status >= 200 /\ call.status <= 299

\* a step of reset_opnsense that called requests.post
Posted == pc = "reset" /\ Len(calls') = Len(calls) + 1

\* C1: whatever the runs of check_ip find on disk and append, no history
\* holds more than 5 events.
C1_AtMostFive ==
    \A ip \in Ips : files[ip].kind = "json" => Len(files[ip].pings) <= MaxPings

\* a full history took one more event: the oldest one is gone, five remain
C1_Witness ==
    \E ip \in Ips :
        /\ files[ip].kind = "json"
        /\ Len(files[ip].pings) = MaxPings
        /\ files[ip].pings[1].event_uuid = InitialUuid(ip, 2)
        /\ files[ip].pings[MaxPings].event_uuid < InitialUuid(ip, 1)

\* C3: two requests that came back with success are at least reset_delay
\* minutes apart.
C3_OnePerCooldown ==
    \A i, j \in 1..Len(calls) :
        (i < j /\ Is2xx(calls[i]) /\ Is2xx(calls[j]))
            => calls[j].at - calls[i].at >= ResetDelay(config)

\* two successful requests were made
C3_Witness ==
    \E i, j \in 1..Len(calls) : i < j /\ Is2xx(calls[i]) /\ Is2xx(calls[j])

\* C4: while less than reset_delay minutes have passed since the time in
\* lastreset.json, reset_opnsense makes no request and leaves lastreset.json
\* and every history file as they are.
C4_CooldownSkips ==
    [][(pc = "reset" /\ lastreset.kind = "number"
                     /\ now - lastreset.at < ResetDelay(config))
          => (calls' = calls /\ lastreset' = lastreset /\ files' = files
                             /\ backups' = backups)]_vars

\* reset_opnsense was called with a failed local and a failed global target
\* and skipped the reset
C4_Witness ==
    /\ outcome.result = "skipped"
    /\ ~config.no_restart
    /\ failed_ips.local # << >>
    /\ failed_ips.global # << >>
    /\ calls = << >>

\* C5: when the request comes back with success, the run ends with an empty
\* history file for every configured target, a backup holding what each file
\* was before, and the time of the reset in lastreset.json.
C5_SuccessClears ==
    [][(Posted /\ Is2xx(calls'[Len(calls')]))
          => /\ \A ip \in Configured(config) :
                   /\ files'[ip] = model_dump_json(ip, << >>)
                   /\ \E b \in backups' : b.ip = ip /\ b.content = files[ip]
             /\ lastreset' = LastresetAt(now)
             /\ pc' = "exited"]_vars

\* a reset succeeded on a local and a global target, and a backup holds events
C5_Witness ==
    /\ outcome.result = "reset"
    /\ Len(calls) > 0 /\ Is2xx(calls[Len(calls)])
    /\ config.local # << >> /\ config.global # << >>
    /\ \A ip \in Configured(config) :
          \E b \in backups : b.ip = ip /\ b.content.kind = "json" /\ b.content.pings # << >>

\* C6: when the request raises or comes back with a status outside 2xx,
\* lastreset.json and every history file stay as they are.
C6_FailureChangesNothing ==
    [][(Posted /\ ~Is2xx(calls'[Len(calls')]))
          => (lastreset' = lastreset /\ files' = files)]_vars

(***************************************************************************)
(* Claims about get_failed_ips and the tests of __main__.                  *)
(***************************************************************************)
\* less than half of the events of the file are valid, by counting
Failing(content) ==
    /\ content.kind = "json"
    /\ LET n == Len(content.pings)
           bad == Cardinality({i \in 1..n : content.pings[i].failure})
       IN n > 0 /\ 2 * (n - bad) < n

FailingOf(list) == {ip \in ListSet(list) : Failing(files[ip])}

\* C7: reset_opnsense is called iff a local and a global target are failing,
\* or more than half of the global targets, or more than half of the local
\* targets; a group without targets never has its majority.
C7_EscalationRules ==
    LET fl == Cardinality(FailingOf(config.local))
        fg == Cardinality(FailingOf(config.global))
    IN pc \in {"reset", "exited"} =>
          /\ pc = "reset" <=> \/ fl > 0 /\ fg > 0
                              \/ 2 * fg > Len(config.global)
                              \/ 2 * fl > Len(config.local)
          /\ (pc = "reset" /\ config.global = << >>) => 2 * fl > Len(config.local)
          /\ (pc = "reset" /\ config.local = << >>) => 2 * fg > Len(config.global)

\* one of two local and one of two global targets are failing: no majority
\* in either group, and reset_opnsense is called
C7_Witness ==
    /\ pc = "reset"
    /\ Len(config.local) = 2 /\ Len(config.global) = 2
    /\ Cardinality(FailingOf(config.local)) = 1
    /\ Cardinality(FailingOf(config.global)) = 1

\* C8: get_failed_ips reports a target iff less than half of the events of
\* its file are valid; half of them failed, or no event at all, is not failing.
C8_FailedIffUnderHalf ==
    pc # "checked" =>
        /\ ListSet(failed_ips.local) = FailingOf(config.local)
        /\ ListSet(failed_ips.global) = FailingOf(config.global)
        /\ \A ip \in Configured(config) :
              (files[ip].kind = "json" /\ files[ip].pings = << >>)
                  => ip \notin ListSet(failed_ips.local) \cup ListSet(failed_ips.global)

\* of three targets one is reported, one has two failures in four events and
\* one has no events
C8_Witness ==
    /\ pc = "decide"
    /\ \E a, b, c \in Configured(config) :
          /\ a \in ListSet(failed_ips.local) \cup ListSet(failed_ips.global)
          /\ files[b].kind = "json" /\ Len(files[b].pings) = 4
          /\ Cardinality({i \in 1..4 : files[b].pings[i].failure}) = 2
          /\ b \notin ListSet(failed_ips.local) \cup ListSet(failed_ips.global)
          /\ files[c].kind = "json" /\ files[c].pings = << >>

(***************************************************************************)
(* Claims about load, save and clear, and about the uuids of a history.    *)
(***************************************************************************)
\* the backup <ip>.json.<now> holds this content
BackedUp(bks, ip, t, content) ==
    \E b \in bks : b.ip = ip /\ b.stamp = t /\ b.content = content

\* the events of a list are those of a JSON file, field by field
SameRecords(pings, content) ==
    /\ Len(pings) = Len(content.pings)
    /\ \A i \in 1..Len(pings) :
          /\ pings[i].event_uuid = content.pings[i].event_uuid
          /\ IsoFormat(pings[i].timestamp) = content.pings[i].timestamp
          /\ pings[i].ping = content.pings[i].ping
          /\ pings[i].failure = content.pings[i].failure

\* C11: load never raises; it returns the events of a valid file, an empty
\* list when there is no file, and for a malformed file an empty list after
\* moving the file to <ip>.json.<timestamp>.
C11_LoadNeverRaises ==
    [][lastCall'.op = "load" =>
          /\ ~lastCall'.raised
          /\ files[StoreIp].kind = "json" =>
                (SameRecords(pinglist', files[StoreIp]) /\ files' = files
                                                        /\ backups' = backups)
          /\ files[StoreIp].kind = "absent" =>
                (pinglist' = << >> /\ files' = files /\ backups' = backups)
          /\ files[StoreIp].kind = "malformed" =>
                /\ pinglist' = << >>
                /\ files'[StoreIp] = NoFile
                /\ BackedUp(backups', StoreIp, now, files[StoreIp])]_vars

\* a malformed file was loaded and is now a backup
C11_Witness ==
    /\ lastCall.op = "load"
    /\ lastCall.before = MalformedFile
    /\ pinglist = << >>
    /\ BackedUp(backups, StoreIp, now, MalformedFile)

\* C12: whatever the file held, clear completes, leaves the file of an empty
\* list, and leaves a backup of what the file held.
C12_ClearAlwaysCompletes ==
    [][lastCall'.op = "clear" =>
          /\ ~lastCall'.raised
          /\ files'[StoreIp] = model_dump_json(StoreIp, << >>)
          /\ files[StoreIp] # NoFile => BackedUp(backups', StoreIp, now, files[StoreIp])]_vars

DistinctUuids(pings) ==
    \A i, j \in 1..Len(pings) : pings[i].event_uuid = pings[j].event_uuid => i = j

C19_UuidsDistinct ==
    /\ DistinctUuids(pinglist)
    /\ files[StoreIp].kind = "json" => DistinctUuids(files[StoreIp].pings)

\* a full list, loaded from its file, was offered an event it holds
C19_Witness ==
    /\ lastCall.op = "add_ping_event"
    /\ lastCall.present
    /\ Len(pinglist) = MaxPings
    /\ lastCall.before.kind = "json"

(***************************************************************************)
(* Claims about the errors of a run and about when the request is made.    *)
(***************************************************************************)
\* C14: an error of the request (no response, or a response whose body is
\* not JSON) is logged and does not end the run with an exception.
C14_RequestErrorsContained ==
    [][Posted => ~outcome'.raised]_vars

\* C15: when lastreset.json is missing, is not JSON, or holds JSON that is no
\* time, reset_opnsense makes the request as if the delay had passed.
C15_CorruptLastresetPosts ==
    [][(pc = "reset" /\ ~config.no_restart
                     /\ lastreset.kind \in {"absent", "malformed", "other"})
          => Posted]_vars

\* C16: when the request of the previous run failed (no response, or a
\* status outside 2xx), a run that calls reset_opnsense makes the request again.
C16_FailedRequestRetried ==
    [][(pc = "reset" /\ ~config.no_restart /\ Len(calls) > 0
                     /\ calls[Len(calls)].run = runs - 1
                     /\ ~Is2xx(calls[Len(calls)]))
          => Posted]_vars

\* the tests of __main__, by counting the failing targets in the files
Decision ==
    LET fl == Cardinality(FailingOf(config.local))
        fg == Cardinality(FailingOf(config.global))
    IN \/ fl > 0 /\ fg > 0
       \/ 2 * fg > Len(config.global)
       \/ 2 * fl > Len(config.local)

\* C17: a run makes the request at most once, and only when one of the tests
\* of __main__ holds on the histories the probes left; when none holds the
\* run ends with no request, and lastreset.json and the histories as they were.
C17_AtMostOnceAndOnlyOnDecision ==
    [][/\ Posted => /\ Decision
                    /\ \A i \in 1..Len(calls) : calls[i].run # runs
       /\ (pc = "decide" /\ ~Decision)
             => /\ pc' = "exited"
                /\ calls' = calls /\ lastreset' = lastreset
                /\ files' = files /\ backups' = backups
       /\ (pc = "exited" /\ pc' = "exited") => calls' = calls]_vars

\* a second run found no failing target and ended without a request, after a
\* first run that made one
C17_Witness ==
    /\ pc = "exited" /\ runs = 2
    /\ ~Decision
    /\ Configured(config) # {}
    /\ Len(calls) = 1 /\ calls[1].run = 1

\* C18: with no_restart set no request is ever made, and reset_opnsense
\* returns leaving lastreset.json and the histories as they were.
C18_NoRestartNoRequest ==
    [][config.no_restart =>
          /\ calls' = calls
          /\ pc = "reset" => /\ pc' = "exited"
                             /\ lastreset' = lastreset
                             /\ files' = files /\ backups' = backups]_vars

\* reset_opnsense returned on no_restart, with a failed local and a failed
\* global target and no lastreset.json that could have held it back
C18_Witness ==
    /\ outcome.result = "no_restart"
    /\ lastreset = NoLastreset
    /\ failed_ips.local # << >> /\ failed_ips.global # << >>
    /\ calls = << >>

\* a history without events: no file, a malformed file, or an empty list
EmptyHistory(content) == content.kind = "json" => content.pings = << >>

\* the one event of the file is a failed ping
FailedOnce(content) ==
    content.kind = "json" /\ Len(content.pings) = 1 /\ content.pings[1].failure

\* every configured target has one event, and a local and a global target
\* have a failed one
FirstProbesFailed ==
    /\ \A ip \in Configured(config) :
          files[ip].kind = "json" /\ Len(files[ip].pings) = 1
    /\ \E ip \in ListSet(config.local) : FailedOnce(files[ip])
    /\ \E ip \in ListSet(config.global) : FailedOnce(files[ip])

\* the delay has passed: lastreset.json is missing or holds an old time
Elapsed == lastreset.kind = "absent" \/ (lastreset.kind = "number" /\ ~(now - lastreset.at < ResetDelay(config)))

\* C20: a run that starts on empty histories leaves one event in each; when
\* the ping of a local and of a global target failed, get_failed_ips
\* reports them, __main__ calls reset_opnsense, and with restarts enabled and
\* the delay passed the request is made in that run.
C20_ColdStartEscalates ==
    [][/\ (pc = "start" /\ \A ip \in Configured(config) : EmptyHistory(files[ip]))
             => \A ip \in Configured(config) :
                   files'[ip].kind = "json" /\ Len(files'[ip].pings) = 1
       /\ (pc = "checked" /\ FirstProbesFailed)
             => /\ \A ip \in ListSet(config.local) :
                      FailedOnce(files[ip]) => ip \in ListSet(failed_ips'.local)
                /\ \A ip \in ListSet(config.global) :
                      FailedOnce(files[ip]) => ip \in ListSet(failed_ips'.global)
                /\ files' = files
       /\ (pc = "decide" /\ FirstProbesFailed) => pc' = "reset"
       /\ (pc = "reset" /\ FirstProbesFailed /\ ~config.no_restart /\ Elapsed)
             => Posted /\ calls'[Len(calls')].run = runs]_vars

\* the first pings of a local and a global target failed and the request was
\* made in that run; it came back with an error, so the histories are still there
C20_Witness ==
    /\ pc = "exited"
    /\ FirstProbesFailed
    /\ Len(calls) > 0 /\ calls[Len(calls)].run = runs
    /\ failed_ips.local # << >> /\ failed_ips.global # << >>

====
